---- MODULE Spec2Model ----
(***************************************************************************)
(* bgb-web-bridge: the BGB link-cable transport (src/src/bgb.rs), its      *)
(* packet codec (src/src/protocol.rs) and the game sequencer               *)
(* (src/src/game.rs).                                                      *)
(*                                                                         *)
(* Spec      the transport: the bgb_thread background loop, the caller of  *)
(*           BgbClient::exchange_byte and the BGB peer on the TCP socket.  *)
(* SpecGame  the GameThread session loop on top of exchange_byte.          *)
(* SpecCodec the conversions of BgbPacket (src/src/protocol.rs).           *)
(* SpecBridge Bridge::handle_message (src/src/bridge.rs).                  *)
(* SpecClock the transport after many transfers (timestamp wrap-around).   *)
(* SpecConnect BgbClient::connect: the handshake, then the transport.      *)
(* SpecReassembly the background loop with socket reads of every length.   *)
(* SpecStart the session loop followed from the middle of a game.          *)
(* SpecBuffer the background loop after a burst larger than read_buf.      *)
(* FairSpec, FairSpecGame: the same with a thread that keeps running.      *)
(***************************************************************************)
EXTENDS Integers, Sequences, FiniteSets, TLC

\* ---------------------------------------------------------------- bounds
\* number of exchange_byte calls the owner of the BgbClient makes
MaxCalls == 2
\* number of packets the BGB peer writes to the socket
MaxPeerPkts == 2
\* number of commands the front-end puts in the session's inbox
MaxCmds == 3
\* wall-clock time after the start script is followed up to MaxElapsed ms,
\* in steps of ElapseStep ms
MaxElapsed == 3000
ElapseStep == 1500
\* number of exchanges of one handle_message call that the peer answers with
\* another byte than the one it usually answers
MaxOdd == 1
\* number of packets the peer has written before the background loop reads
\* the socket for the first time (SpecBuffer): more than read_buf holds
BurstLen == 9

\* ------------------------------------------------------- program constants
\* step of the timestamp counter per initiated transfer
TimestampStep == 8192
\* size of the reassembly buffer read_buf
ReadBufSize == 64
\* size of one wire packet
PacketSize == 8
\* 2^16: a u32 is kept as two 16-bit halves (the checker's integers are
\* 32-bit signed, a u32 does not fit)
Half == 65536

\* ---------------------------------------------------------- input domains
\* bytes the caller asks to exchange
CallBytes == {41, 28}
\* data bytes the peer puts in its packets
PeerData == {85, 170}
\* commands the peer sends: sync1, sync2, sync3, status, disconnect, unknown
PeerCommands == {104, 105, 106, 108, 109, 7}
\* timestamps the peer puts in its packets (all four bytes differ)
PeerTimestamps == {[hi |-> 258, lo |-> 772]}
\* lengths a read of the socket returns besides "everything that has arrived"
SplitSizes == {4}

VARIABLES
    \* bgb_thread locals; cur_pkt is `pkt`, the packet taken from read_buf by
    \* the current iteration of the processing loop
    waiting_for_response, pending_byte, next_timestamp, read_buf, bpc,
    exchange_count, cur_pkt,
    \* where BgbClient::connect is
    hpc,
    \* the two mpsc channels between BgbClient and bgb_thread
    send_ch, recv_ch,
    \* the BgbClient handle and the exchange_byte call in progress
    client, cpc, xres,
    \* the TCP stream: bytes in flight from the peer, packets written to it
    netin, sent, sock,
    \* history: calls begun, the call whose byte is outstanding, timed-out
    \* calls, the kind of the last packet handled, flag clearings, peer packets
    callNo, pending_call, timedOut, lastHandled, nCleared, peerPkts,
    \* GameThread fields
    phase, music_byte, opponent_height, command_queue, game_started_at,
    \* the command inbox (cmd_rx) and whether its sender still exists
    inbox, inboxOpen,
    \* where GameThread::run is, the call site and byte of the exchange in
    \* progress, whether the transport had ended when it began, the rest of
    \* the start script, the semantic events sent by the last step
    gpc, gsite, xbyte, xdead, script, emitted,
    \* history: exchange calls begun and not yet returned, commands sent
    xOpen, cmdsSent,
    \* history: the call site and result of the exchange that returned in the
    \* last step, the last StartGame dequeued and the bytes exchanged for it
    lastRet, startLog,
    \* a packet codec conversion in progress, a Bridge::handle_message call
    codec, bridge

bgbVars == <<waiting_for_response, pending_byte, next_timestamp, read_buf, bpc,
             exchange_count, cur_pkt>>
chanVars == <<send_ch, recv_ch>>
clientVars == <<client, cpc, xres>>
sockVars == <<netin, sent, sock>>
histVars == <<callNo, pending_call, timedOut, lastHandled, nCleared, peerPkts>>
gameVars == <<phase, music_byte, opponent_height, command_queue, game_started_at,
              inbox, inboxOpen, gpc, gsite, xbyte, xdead, script, emitted,
              xOpen, cmdsSent, lastRet, startLog>>
auxVars == <<codec, bridge, hpc>>
linkVars == <<waiting_for_response, pending_byte, next_timestamp, read_buf,
              exchange_count, cur_pkt, chanVars, clientVars, sockVars, histVars>>
vars == <<bgbVars, chanVars, clientVars, sockVars, histVars, gameVars,
          auxVars>>

\* ------------------------------------------------------------ PacketCodec
BgbPacket(command, data, extra1, extra2, timestamp) ==
    [command |-> command, data |-> data, extra1 |-> extra1,
     extra2 |-> extra2, timestamp |-> timestamp]

\* a u32 value hi * 2^16 + lo
u32(n) == [hi |-> (n \div Half) % Half, lo |-> n % Half]

\* mutant: the carry into the upper half is lost
wrapping_add_no_carry(t, n) ==
    [hi |-> t.hi, lo |-> (t.lo + n) % Half]

\* u32::wrapping_add of a step below 2^16
wrapping_add(t, n) ==
    [hi |-> (t.hi + ((t.lo + n) \div Half)) % Half, lo |-> (t.lo + n) % Half]

\* mutant: the most significant byte comes first
to_le_bytes_msb_first(t) ==
    <<t.hi \div 256, t.hi % 256, t.lo \div 256, t.lo % 256>>

\* u32::to_le_bytes
to_le_bytes(t) ==
    <<t.lo % 256, t.lo \div 256, t.hi % 256, t.hi \div 256>>

\* u32::from_le_bytes
from_le_bytes(b) ==
    [hi |-> b[3] + 256 * b[4], lo |-> b[1] + 256 * b[2]]

to_bytes(p) ==
    <<p.command, p.data, p.extra1, p.extra2>> \o to_le_bytes(p.timestamp)

from_bytes(b) ==
    BgbPacket(b[1], b[2], b[3], b[4], from_le_bytes(<<b[5], b[6], b[7], b[8]>>))

\* ------------------------------------------------------------- helpers
read_pos == Len(read_buf)

Min(a, b) == IF a < b THEN a ELSE b

Drop(s, n) == SubSeq(s, n + 1, Len(s))

Take(s, n) == SubSeq(s, 1, n)

\* number of sync1 packets the loop has written
Sync1Sent == Cardinality({i \in 1..Len(sent) : sent[i].command = 104})

\* ------------------------------------------------------------------ Init
\* the locals of bgb_thread and the fields of GameThread::new, but for the
\* link clock, the progress of connect and the fields a game changes
InitCommon ==
    /\ waiting_for_response = FALSE
    /\ pending_byte = 0
    /\ read_buf = <<>>
    /\ cur_pkt = <<>>
    /\ send_ch = <<>>
    /\ recv_ch = <<>>
    /\ cpc = "idle"
    /\ xres = [kind |-> "none", v |-> 0, tag |-> 0, call |-> 0, afterEnd |-> FALSE]
    /\ netin = <<>>
    /\ sent = <<>>
    /\ sock = "open"
    /\ callNo = 0
    /\ pending_call = 0
    /\ timedOut = {}
    /\ lastHandled = "none"
    /\ nCleared = 0
    /\ peerPkts = 0
    /\ music_byte = 28
    /\ inbox = <<>>
    /\ inboxOpen = TRUE
    /\ gpc = "drain"
    /\ gsite = "none"
    /\ xdead = FALSE
    /\ script = <<>>
    /\ emitted = <<>>
    /\ xOpen = 0
    /\ cmdsSent = 0
    /\ lastRet = [site |-> "none", ok |-> FALSE, v |-> 0]
    /\ startLog = [cmd |-> [cmd |-> "none", garbage |-> <<>>, tiles |-> <<>>,
                            is_first |-> FALSE],
                   bytes |-> <<>>]

\* GameThread::new: no game yet
InitRest ==
    /\ InitCommon
    /\ phase = "WaitingForGame"
    /\ opponent_height = 0
    /\ command_queue = <<>>
    /\ game_started_at = [some |-> FALSE, elapsed |-> 0]
    /\ xbyte = 0

\* connect has returned Ok: the background thread has just been spawned
InitBase ==
    /\ InitRest
    /\ next_timestamp = u32(0)
    /\ exchange_count = 0
    /\ bpc = "poll"
    /\ client = "live"
    /\ hpc = "done"

\* no codec conversion and no handle_message call is in progress
CodecIdle ==
    [pc |-> "idle", pkt |-> BgbPacket(0, 0, 0, 0, u32(0)), buf |-> <<>>,
     pkt0 |-> BgbPacket(0, 0, 0, 0, u32(0)), buf0 |-> <<>>]

BridgeIdle ==
    [pc |-> "idle", data |-> <<>>, i |-> 0, response |-> <<>>,
     result |-> [ok |-> TRUE, bytes |-> <<>>], log |-> <<>>, odd |-> 0]

Init ==
    /\ InitBase
    /\ codec = CodecIdle
    /\ bridge = BridgeIdle

\* ------------------------------------------------------- bgb_thread (loop)
\* the thread function returns: send_rx, recv_tx and the stream are dropped
\* (values already in the result channel stay readable by the client)
ThreadReturn ==
    /\ bpc' = "ended"
    /\ send_ch' = <<>>


\* mutant: the request channel is checked even while an exchange is outstanding
may_initiate_always == TRUE

\* line 111: a new transfer is looked for only when none is outstanding
may_initiate == ~waiting_for_response

\* outcomes of write_all on the stream (send_packet)
send_packet_ok ==
    CASE sock = "open" -> {TRUE}
      [] sock = "closed" -> {TRUE, FALSE}
      [] OTHER -> {FALSE}

\* lines 110-134: the non-blocking check of the request channel
BgbPoll ==
    /\ bpc = "poll"
    /\ IF may_initiate /\ send_ch # <<>>
       THEN LET req == Head(send_ch)
                ts == wrapping_add(next_timestamp, TimestampStep)
            IN \E ok \in send_packet_ok :
                /\ next_timestamp' = ts
                /\ exchange_count' = exchange_count + (IF ok THEN 1 ELSE 0)
                /\ IF ok
                   THEN /\ sent' = Append(sent, BgbPacket(104, req.b, 129, 0, ts))
                        /\ pending_byte' = req.b
                        /\ pending_call' = req.call
                        /\ waiting_for_response' = TRUE
                        /\ send_ch' = Tail(send_ch)
                        /\ bpc' = "read"
                   ELSE /\ ThreadReturn
                        /\ UNCHANGED <<sent, pending_byte, pending_call,
                                       waiting_for_response>>
       ELSE /\ IF may_initiate /\ client = "dropped"
               THEN ThreadReturn
               ELSE bpc' = "read" /\ UNCHANGED send_ch
            /\ UNCHANGED <<sent, pending_byte, pending_call,
                           waiting_for_response, next_timestamp, exchange_count>>
    /\ cur_pkt' = <<>>
    /\ UNCHANGED <<read_buf, recv_ch, clientVars, netin, sock>>
    /\ UNCHANGED <<callNo, timedOut, lastHandled, nCleared, peerPkts>>
    /\ UNCHANGED <<gameVars, auxVars>>

\* the lengths stream.read may return when `avail` bytes fit and have arrived
ReadSizesOf(split, avail) == {n \in 1..avail : n = avail \/ n \in split}

ReadSizes(avail) == ReadSizesOf(SplitSizes, avail)

\* every length a read into read_buf can return
AnySizes == 1..ReadBufSize

\* mutant: the bytes read are put in front of the bytes already buffered
BgbReadOf_at_front(split) ==
    /\ bpc = "read"
    /\ LET cap == ReadBufSize - read_pos
       IN \/ /\ sock # "error" /\ netin # <<>> /\ cap > 0
             /\ \E n \in ReadSizesOf(split, Min(Len(netin), cap)) :
                   /\ read_buf' = Take(netin, n) \o read_buf
                   /\ netin' = Drop(netin, n)
                   /\ bpc' = IF read_pos + n >= PacketSize THEN "proc" ELSE "poll"
             /\ UNCHANGED send_ch
          \/ /\ sock = "open" /\ netin = <<>> /\ cap > 0
             /\ bpc' = IF read_pos >= PacketSize THEN "proc" ELSE "poll"
             /\ UNCHANGED <<read_buf, netin, send_ch>>
          \/ /\ \/ sock = "error"
                \/ sock = "closed" /\ netin = <<>>
                \/ cap = 0
             /\ ThreadReturn
             /\ UNCHANGED <<read_buf, netin>>
    /\ cur_pkt' = <<>>
    /\ UNCHANGED <<waiting_for_response, pending_byte, next_timestamp,
                   exchange_count>>
    /\ UNCHANGED <<recv_ch, clientVars, sent, sock, histVars>>
    /\ UNCHANGED <<gameVars, auxVars>>

\* lines 137-162: one non-blocking read into read_buf[read_pos..], which
\* returns everything that has arrived or one of the lengths in `split`
BgbReadOf(split) ==
    /\ bpc = "read"
    /\ LET cap == ReadBufSize - read_pos
       IN \/ /\ sock # "error" /\ netin # <<>> /\ cap > 0
             /\ \E n \in ReadSizesOf(split, Min(Len(netin), cap)) :
                   /\ read_buf' = read_buf \o Take(netin, n)
                   /\ netin' = Drop(netin, n)
                   /\ bpc' = IF read_pos + n >= PacketSize THEN "proc" ELSE "poll"
             /\ UNCHANGED send_ch
          \/ /\ sock = "open" /\ netin = <<>> /\ cap > 0
             /\ bpc' = IF read_pos >= PacketSize THEN "proc" ELSE "poll"
             /\ UNCHANGED <<read_buf, netin, send_ch>>
          \/ /\ \/ sock = "error"
                \/ sock = "closed" /\ netin = <<>>
                \/ cap = 0
             /\ ThreadReturn
             /\ UNCHANGED <<read_buf, netin>>
    /\ cur_pkt' = <<>>
    /\ UNCHANGED <<waiting_for_response, pending_byte, next_timestamp,
                   exchange_count>>
    /\ UNCHANGED <<recv_ch, clientVars, sent, sock, histVars>>
    /\ UNCHANGED <<gameVars, auxVars>>

\* the read of the transport specification: everything that has arrived, or
\* one of SplitSizes
BgbRead == BgbReadOf(SplitSizes)

\* the read of the reassembly specification: any length
BgbReadAny == BgbReadOf(AnySizes)

\* what one arm of `match pkt.command` does: the flag afterwards, the packets
\* written, the values sent on the result channel, whether the thread returns
Effect(kind, w, out, dlv, ret) ==
    [kind |-> kind, w |-> w, out |-> out, dlv |-> dlv, ret |-> ret]


\* mutant: the collision reply carries the peer's byte and the caller gets ours
on_sync1_swapped(pkt) ==
    IF waiting_for_response
    THEN Effect("collision", FALSE,
                <<BgbPacket(105, pkt.data, 128, 0, pkt.timestamp)>>,
                <<pending_byte>>, FALSE)
    ELSE Effect("unsolicited", waiting_for_response,
                <<BgbPacket(105, 0, 128, 0, pkt.timestamp)>>, <<>>, FALSE)

\* mutant: an unsolicited sync1 is answered with the last byte sent
on_sync1_stale_byte(pkt) ==
    IF waiting_for_response
    THEN Effect("collision", FALSE,
                <<BgbPacket(105, pending_byte, 128, 0, pkt.timestamp)>>,
                <<pkt.data>>, FALSE)
    ELSE Effect("unsolicited", waiting_for_response,
                <<BgbPacket(105, pending_byte, 128, 0, pkt.timestamp)>>, <<>>, FALSE)

\* lines 179-197
on_sync1(pkt) ==
    IF waiting_for_response
    THEN Effect("collision", FALSE,
                <<BgbPacket(105, pending_byte, 128, 0, pkt.timestamp)>>,
                <<pkt.data>>, FALSE)
    ELSE Effect("unsolicited", waiting_for_response,
                <<BgbPacket(105, 0, 128, 0, pkt.timestamp)>>, <<>>, FALSE)


\* mutant: a sync2 completes the exchange but the flag is not cleared
on_sync2_flag_kept(pkt) ==
    IF waiting_for_response
    THEN Effect("sync2", waiting_for_response, <<>>, <<pkt.data>>, FALSE)
    ELSE Effect("stale", waiting_for_response, <<>>, <<>>, FALSE)

\* mutant: a sync2 is delivered whether or not an exchange is outstanding
on_sync2_unchecked(pkt) ==
    Effect(IF waiting_for_response THEN "sync2" ELSE "stale", FALSE, <<>>,
           <<pkt.data>>, FALSE)

\* lines 198-211
on_sync2(pkt) ==
    IF waiting_for_response
    THEN Effect("sync2", FALSE, <<>>, <<pkt.data>>, FALSE)
    ELSE Effect("stale", waiting_for_response, <<>>, <<>>, FALSE)

\* mutant: the reply to a sync3 carries the data byte only
on_sync3_extras_zeroed(pkt) ==
    Effect("sync3", waiting_for_response,
           <<BgbPacket(106, pkt.data, 0, 0, pkt.timestamp)>>, <<>>, FALSE)

\* lines 212-215
on_sync3(pkt) ==
    Effect("sync3", waiting_for_response,
           <<BgbPacket(106, pkt.data, pkt.extra1, pkt.extra2, pkt.timestamp)>>,
           <<>>, FALSE)

\* lines 216-219
on_status(pkt) ==
    Effect("status", waiting_for_response,
           <<BgbPacket(108, 1, 0, 0, pkt.timestamp)>>, <<>>, FALSE)

\* lines 220-223
on_disconnect(pkt) ==
    Effect("disconnect", waiting_for_response, <<>>, <<>>, TRUE)

\* mutant: a packet with an unknown command ends the loop
on_unknown_fatal(pkt) ==
    Effect("unknown", waiting_for_response, <<>>, <<>>, TRUE)

\* lines 224-227
on_unknown(pkt) ==
    Effect("unknown", waiting_for_response, <<>>, <<>>, FALSE)

\* line 178: match pkt.command
dispatch(pkt) ==
    CASE pkt.command = 104 -> on_sync1(pkt)
      [] pkt.command = 105 -> on_sync2(pkt)
      [] pkt.command = 106 -> on_sync3(pkt)
      [] pkt.command = 108 -> on_status(pkt)
      [] pkt.command = 109 -> on_disconnect(pkt)
      [] OTHER -> on_unknown(pkt)

\* the packet at the front of the reassembly buffer
front_packet == from_bytes(Take(read_buf, PacketSize))

\* mutant: one packet is processed per loop iteration (`if` for `while`)
BgbProcess_once ==
    /\ bpc = "proc"
    /\ LET pkt == front_packet
           eff == dispatch(pkt)
       IN /\ cur_pkt' = <<pkt>>
          /\ read_buf' = Drop(read_buf, PacketSize)
          /\ sent' = sent \o eff.out
          /\ waiting_for_response' = eff.w
          /\ lastHandled' = eff.kind
          /\ nCleared' = nCleared + (IF waiting_for_response /\ ~eff.w THEN 1 ELSE 0)
          /\ IF eff.ret \/ (eff.dlv # <<>> /\ client = "dropped")
             THEN ThreadReturn /\ UNCHANGED recv_ch
             ELSE /\ recv_ch' = recv_ch \o
                        [i \in 1..Len(eff.dlv) |-> [v |-> eff.dlv[i], call |-> pending_call]]
                  /\ bpc' = "poll"
                  /\ UNCHANGED send_ch
    /\ UNCHANGED <<pending_byte, next_timestamp, exchange_count, clientVars,
                   netin, sock>>
    /\ UNCHANGED <<callNo, pending_call, timedOut, peerPkts>>
    /\ UNCHANGED <<gameVars, auxVars>>

\* lines 165-229: one iteration of `while read_pos >= 8`
BgbProcess ==
    /\ bpc = "proc"
    /\ LET pkt == front_packet
           eff == dispatch(pkt)
           remaining == read_pos - PacketSize
       IN /\ cur_pkt' = <<pkt>>
          /\ read_buf' = Drop(read_buf, PacketSize)
          /\ sent' = sent \o eff.out
          /\ waiting_for_response' = eff.w
          /\ lastHandled' = eff.kind
          /\ nCleared' = nCleared + (IF waiting_for_response /\ ~eff.w THEN 1 ELSE 0)
          /\ IF eff.ret \/ (eff.dlv # <<>> /\ client = "dropped")
             THEN ThreadReturn /\ UNCHANGED recv_ch
             ELSE /\ recv_ch' = recv_ch \o
                        [i \in 1..Len(eff.dlv) |-> [v |-> eff.dlv[i], call |-> pending_call]]
                  /\ bpc' = IF remaining >= PacketSize THEN "proc" ELSE "poll"
                  /\ UNCHANGED send_ch
    /\ UNCHANGED <<pending_byte, next_timestamp, exchange_count, clientVars,
                   netin, sock>>
    /\ UNCHANGED <<callNo, pending_call, timedOut, peerPkts>>
    /\ UNCHANGED <<gameVars, auxVars>>


\* mutant: the result of send_tx.send is ignored
send_tx_send_ignored == FALSE

\* ------------------------------------------------ BgbClient::exchange_byte
\* line 50: send_tx.send fails exactly when the receiver has been dropped
send_tx_send_err == bpc = "ended"

\* line 50: hand the byte to the background thread
ExchangeBegin(b) ==
    /\ client = "live" /\ cpc = "idle"
    /\ callNo < MaxCalls
    /\ callNo' = callNo + 1
    /\ IF send_tx_send_err
       THEN /\ xres' = [kind |-> "died", v |-> 0, tag |-> 0, call |-> callNo + 1,
                        afterEnd |-> (bpc = "ended")]
            /\ UNCHANGED <<cpc, send_ch>>
       ELSE /\ xres' = [kind |-> "none", v |-> 0, tag |-> 0, call |-> callNo + 1,
                        afterEnd |-> (bpc = "ended")]
            /\ send_ch' = IF bpc = "ended" THEN send_ch
                          ELSE Append(send_ch, [b |-> b, call |-> callNo + 1])
            /\ cpc' = "recv"
    /\ UNCHANGED <<bgbVars, recv_ch, client, sockVars>>
    /\ UNCHANGED <<pending_call, timedOut, lastHandled, nCleared, peerPkts>>
    /\ UNCHANGED <<gameVars, auxVars>>

\* line 51: recv_timeout returns a value that is in the channel
ExchangeRecvOk ==
    /\ cpc = "recv"
    /\ recv_ch # <<>>
    /\ xres' = [xres EXCEPT !.kind = "ok", !.v = Head(recv_ch).v,
                            !.tag = Head(recv_ch).call]
    /\ recv_ch' = Tail(recv_ch)
    /\ cpc' = "idle"
    /\ UNCHANGED <<bgbVars, send_ch, client, sockVars, histVars>>
    /\ UNCHANGED <<gameVars, auxVars>>

\* the background loop polls the request channel every few milliseconds
\* (non-blocking read, 1 ms sleep): within the 5 s of recv_timeout it has
\* taken a request that it was free to take
request_taken ==
    ~(bpc # "ended" /\ may_initiate /\ send_ch # <<>>)

\* lines 51-52: nothing arrived within 5 s, or the sender is gone
ExchangeRecvErr ==
    /\ cpc = "recv"
    /\ recv_ch = <<>>
    /\ request_taken
    /\ xres' = [xres EXCEPT !.kind = "timeout"]
    /\ timedOut' = timedOut \cup {xres.call}
    /\ cpc' = "idle"
    /\ UNCHANGED <<bgbVars, chanVars, client, sockVars>>
    /\ UNCHANGED <<callNo, pending_call, lastHandled, nCleared, peerPkts>>
    /\ UNCHANGED <<gameVars, auxVars>>

\* the owner drops the BgbClient: send_tx and recv_rx go away
ClientDrop ==
    /\ client = "live" /\ cpc = "idle"
    /\ client' = "dropped"
    /\ recv_ch' = <<>>
    /\ UNCHANGED <<bgbVars, send_ch, cpc, xres, sockVars, histVars>>
    /\ UNCHANGED <<gameVars, auxVars>>

\* ---------------------------------------------------- the BGB peer (socket)
PeerPackets ==
    {BgbPacket(c, d, 128, 0, t) : c \in {104, 105}, d \in PeerData, t \in PeerTimestamps}
    \cup {BgbPacket(c, 85, 128, 2, t) : c \in PeerCommands \ {104, 105},
                                        t \in PeerTimestamps}

PeerSend(p) ==
    /\ sock = "open" /\ bpc # "ended"
    /\ peerPkts < MaxPeerPkts
    /\ peerPkts' = peerPkts + 1
    /\ netin' = netin \o to_bytes(p)
    /\ UNCHANGED <<bgbVars, chanVars, clientVars, sent, sock>>
    /\ UNCHANGED <<callNo, pending_call, timedOut, lastHandled, nCleared>>
    /\ UNCHANGED <<gameVars, auxVars>>

PeerClose ==
    /\ sock = "open" /\ bpc # "ended"
    /\ sock' = "closed"
    /\ UNCHANGED <<bgbVars, chanVars, clientVars, netin, sent, histVars>>
    /\ UNCHANGED <<gameVars, auxVars>>

SockError ==
    /\ sock # "error" /\ bpc # "ended"
    /\ sock' = "error"
    /\ netin' = <<>>
    /\ UNCHANGED <<bgbVars, chanVars, clientVars, sent, histVars>>
    /\ UNCHANGED <<gameVars, auxVars>>

\* ------------------------------------------------------------------ Spec
Next ==
    \/ BgbPoll
    \/ BgbRead
    \/ BgbProcess
    \/ \E b \in CallBytes : ExchangeBegin(b)
    \/ ExchangeRecvOk
    \/ ExchangeRecvErr
    \/ ClientDrop
    \/ \E p \in PeerPackets : PeerSend(p)
    \/ PeerClose
    \/ SockError

Spec == Init /\ [][Next]_vars

\* the background thread keeps running: each of its steps, once possible, is
\* taken
FairSpec == Spec /\ WF_vars(BgbPoll) /\ WF_vars(BgbRead) /\ WF_vars(BgbProcess)

\* ------------------------------------------------------------- SpecClock
\* the transport followed from the loop states in which exchange_count
\* transfers have been initiated and completed: none, and two short of the
\* 524288 after which 8192 * exchange_count no longer fits in a u32
ClockStarts == {[count |-> 0, clock |-> [hi |-> 0, lo |-> 0]],
                [count |-> 524286, clock |-> [hi |-> 65535, lo |-> 49152]]}

InitClock ==
    /\ InitRest
    /\ \E s \in ClockStarts :
          /\ exchange_count = s.count
          /\ next_timestamp = s.clock
    /\ bpc = "poll"
    /\ client = "live"
    /\ hpc = "done"
    /\ codec = CodecIdle
    /\ bridge = BridgeIdle

SpecClock == InitClock /\ [][Next]_vars

\* ----------------------------------------------------------- SpecConnect
\* BgbClient::connect from the moment the TCP connection is made: the
\* handshake runs on the caller's thread, bgb_thread exists once it is spawned
InitConnect ==
    /\ InitRest
    /\ next_timestamp = u32(0)
    /\ exchange_count = 0
    /\ bpc = "unborn"
    /\ client = "none"
    /\ hpc = "version"
    /\ codec = CodecIdle
    /\ bridge = BridgeIdle

\* the version packet BGB answers the handshake with
PeerVersions == {BgbPacket(1, 1, 4, 0, t) : t \in PeerTimestamps}

\* a handshake step: the position of connect and the socket change, the
\* background thread and the caller's handle are not there yet
HandshakeStep(at, ok, to, pkts) ==
    /\ hpc = at
    /\ hpc' = IF ok THEN to ELSE "failed"
    /\ sent' = IF ok THEN sent \o pkts ELSE sent
    /\ UNCHANGED <<bgbVars, chanVars, clientVars, sock, histVars>>
    /\ UNCHANGED <<gameVars, codec, bridge>>

\* line 58: send_packet(version)?
HsSendVersion ==
    \E ok \in send_packet_ok :
        /\ HandshakeStep("version", ok, "read", <<BgbPacket(1, 1, 4, 0, u32(0))>>)
        /\ UNCHANGED netin

\* mutant: the command of the packet read is not looked at
HsRead_unchecked ==
    \/ /\ sock # "error" /\ Len(netin) >= PacketSize
       /\ HandshakeStep("read", TRUE, "status", <<>>)
       /\ netin' = Drop(netin, PacketSize)
    \/ /\ sock = "error" \/ (sock = "closed" /\ Len(netin) < PacketSize)
       /\ HandshakeStep("read", FALSE, "status", <<>>)
       /\ UNCHANGED netin

\* lines 61-64, 242-246: read_exact returns once 8 bytes have arrived, or
\* fails; a packet that is no version packet is an error
HsRead ==
    \/ /\ sock # "error" /\ Len(netin) >= PacketSize
       /\ HandshakeStep("read", from_bytes(Take(netin, PacketSize)).command = 1,
                        "status", <<>>)
       /\ netin' = Drop(netin, PacketSize)
    \/ /\ sock = "error" \/ (sock = "closed" /\ Len(netin) < PacketSize)
       /\ HandshakeStep("read", FALSE, "status", <<>>)
       /\ UNCHANGED netin

\* line 67: send_packet(status)?
HsSendStatus ==
    \E ok \in send_packet_ok :
        /\ HandshakeStep("status", ok, "spawn", <<BgbPacket(108, 1, 0, 0, u32(0))>>)
        /\ UNCHANGED netin

\* lines 34-44: the channels are made, bgb_thread is spawned and the handle
\* is returned
HsSpawn ==
    /\ hpc = "spawn"
    /\ hpc' = "done"
    /\ bpc' = "poll"
    /\ client' = "live"
    /\ UNCHANGED <<waiting_for_response, pending_byte, next_timestamp, read_buf,
                   exchange_count, cur_pkt, chanVars, cpc, xres, sockVars,
                   histVars>>
    /\ UNCHANGED <<gameVars, codec, bridge>>

NextConnect ==
    \/ HsSendVersion
    \/ HsRead
    \/ HsSendStatus
    \/ HsSpawn
    \/ BgbPoll
    \/ BgbRead
    \/ BgbProcess
    \/ \E b \in CallBytes : ExchangeBegin(b)
    \/ ExchangeRecvOk
    \/ ExchangeRecvErr
    \/ ClientDrop
    \/ \E p \in PeerPackets \cup PeerVersions : PeerSend(p)
    \/ PeerClose
    \/ SockError

SpecConnect == InitConnect /\ [][NextConnect]_vars

\* -------------------------------------------------------- SpecReassembly
\* the background loop and the peer, with reads of every length; the owner
\* of the BgbClient asks for no exchange
NextReassembly ==
    \/ BgbPoll
    \/ BgbReadAny
    \/ BgbProcess
    \/ \E p \in PeerPackets : PeerSend(p)
    \/ PeerClose
    \/ SockError

SpecReassembly == Init /\ [][NextReassembly]_vars

\* ------------------------------------------------------------ SpecBuffer
\* the background loop when the peer has written a burst of keepalive
\* packets, status and sync3 in turn, before the first read of the socket
RECURSIVE BurstBytes(_)
BurstBytes(n) ==
    IF n = 0 THEN <<>>
    ELSE BurstBytes(n - 1) \o
         to_bytes(BgbPacket(IF n % 2 = 1 THEN 108 ELSE 106, 85, 128, 2,
                            CHOOSE t \in PeerTimestamps : TRUE))

\* the burst arrives
PeerBurst ==
    /\ sock = "open" /\ bpc # "ended"
    /\ peerPkts = 0
    /\ peerPkts' = BurstLen
    /\ netin' = netin \o BurstBytes(BurstLen)
    /\ UNCHANGED <<bgbVars, chanVars, clientVars, sent, sock>>
    /\ UNCHANGED <<callNo, pending_call, timedOut, lastHandled, nCleared>>
    /\ UNCHANGED <<gameVars, auxVars>>

NextBuffer ==
    \/ BgbPoll
    \/ BgbReadAny
    \/ BgbProcess
    \/ PeerBurst
    \/ PeerClose
    \/ SockError

SpecBuffer == Init /\ [][NextBuffer]_vars

TypeOK ==
    /\ waiting_for_response \in BOOLEAN
    /\ bpc \in {"unborn", "poll", "read", "proc", "ended"}
    /\ cpc \in {"idle", "recv"}
    /\ read_pos <= ReadBufSize

\* ------------------------------------------------------------ GameThread
\* commands the front-end puts in the inbox
GameCommand(cmd, arg) == [cmd |-> cmd, arg |-> arg]

StartGame(garbage, tiles, is_first) ==
    [cmd |-> "StartGame", garbage |-> garbage, tiles |-> tiles, is_first |-> is_first]

StartCommands ==
    {StartGame(<<1, 2>>, <<16>>, TRUE), StartGame(<<>>, <<>>, FALSE)}

Commands ==
    {GameCommand("SetGame", 0), GameCommand("SetMusic", 29),
     GameCommand("ConfirmMusic", 0), GameCommand("SetHeight", 7),
     GameCommand("QueueCommand", 52), GameCommand("Stop", 0)}
    \cup StartCommands

\* bytes an exchange can return: the heights 0 and 19 and the first byte that
\* is none, the probe answer, win, the first and last lines bytes and the byte
\* after them, topped out, screen filled
RespBytes == {0, 19, 20, 85, 119, 128, 133, 134, 170, 255}

Ok(v) == [ok |-> TRUE, v |-> v]

Err == [ok |-> FALSE, v |-> 0]

\* bgb.rs 49-53: what exchange_byte can return to the session; a call begun
\* after the background thread ended fails at send_tx.send
exchange_results ==
    IF xdead THEN {Err} ELSE {Ok(v) : v \in RespBytes} \cup {Err}

Event(ev, v) == [ev |-> ev, v |-> v]

\* history: no exchange returned in the last step
NoRet == [site |-> "none", ok |-> FALSE, v |-> 0]

\* history: the exchange at call site `site` returned r in the last step
Returned(site, r) == [site |-> site, ok |-> r.ok, v |-> r.v]

\* history: no StartGame has been dequeued yet
NoStart == [cmd |-> "none", garbage |-> <<>>, tiles |-> <<>>, is_first |-> FALSE]

\* history: every byte whose exchange begins while the phase is GameStarting,
\* whatever the call site
logged(byte) ==
    IF phase = "GameStarting"
    THEN [startLog EXCEPT !.bytes = Append(@, byte)]
    ELSE [cmd |-> NoStart, bytes |-> <<>>]

\* history: the log is kept as long as the phase is GameStarting and for the
\* step that leaves it
kept ==
    IF phase = "GameStarting" THEN startLog ELSE [cmd |-> NoStart, bytes |-> <<>>]


\* mutant: the exchange is started and the caller goes on without its result
exchange_no_wait(site, byte) ==
    /\ gpc' = gpc
    /\ gsite' = site
    /\ xbyte' = byte
    /\ xdead' = (bpc = "ended")
    /\ xOpen' = xOpen + 1
    /\ startLog' = logged(byte)

\* game.rs 310-312: control stays inside exchange_byte until it returns
exchange(site, byte) ==
    /\ gpc' = "xchg"
    /\ gsite' = site
    /\ xbyte' = byte
    /\ xdead' = (bpc = "ended")
    /\ xOpen' = xOpen + 1
    /\ startLog' = logged(byte)

\* the exchange in progress at call site `site` returns
returns(site) ==
    /\ gpc = "xchg" /\ gsite = site
    /\ xOpen' = xOpen - 1
    /\ gsite' = "none"

\* game.rs 141: try_recv yields a command
dequeued(cmd) ==
    /\ gpc = "drain"
    /\ inbox # <<>>
    /\ Head(inbox).cmd = cmd
    /\ inbox' = Tail(inbox)

\* game.rs 143-146
CmdSetGame ==
    /\ dequeued("SetGame")
    /\ phase' = "Probing"
    /\ emitted' = <<>>
    /\ UNCHANGED <<music_byte, opponent_height, command_queue, game_started_at,
                   inboxOpen, gpc, gsite, xbyte, xdead, script, xOpen, cmdsSent>>
    /\ lastRet' = NoRet
    /\ startLog' = kept
    /\ UNCHANGED <<bpc, linkVars, auxVars>>

\* game.rs 147-149
CmdSetMusic ==
    /\ dequeued("SetMusic")
    /\ music_byte' = Head(inbox).arg
    /\ emitted' = <<>>
    /\ UNCHANGED <<phase, opponent_height, command_queue, game_started_at,
                   inboxOpen, gpc, gsite, xbyte, xdead, script, xOpen, cmdsSent>>
    /\ lastRet' = NoRet
    /\ startLog' = kept
    /\ UNCHANGED <<bpc, linkVars, auxVars>>

\* game.rs 150-153: the confirmation byte is exchanged first
CmdConfirmMusic ==
    /\ dequeued("ConfirmMusic")
    /\ exchange("confirm", 80)
    /\ emitted' = <<>>
    /\ UNCHANGED <<phase, music_byte, opponent_height, command_queue,
                   game_started_at, inboxOpen, script, cmdsSent>>
    /\ lastRet' = NoRet
    /\ UNCHANGED <<bpc, linkVars, auxVars>>

\* game.rs 153-154: whatever exchange(0x50) returned
ConfirmReturn(r) ==
    /\ returns("confirm")
    /\ phase' = "WaitingForStart"
    /\ gpc' = "drain"
    /\ emitted' = <<>>
    /\ UNCHANGED <<music_byte, opponent_height, command_queue, game_started_at,
                   inbox, inboxOpen, xbyte, xdead, script, cmdsSent>>
    /\ lastRet' = Returned("confirm", r)
    /\ startLog' = kept
    /\ UNCHANGED <<bpc, linkVars, auxVars>>

\* mutant: the tiles are sent before the garbage lines
start_script_tiles_first(garbage, tiles, is_first) ==
    (IF is_first THEN <<96, 41>> ELSE <<96, 2, 2, 2, 121, 96, 41>>)
    \o tiles \o <<41>> \o garbage \o <<48, 0, 2, 2, 32>>

\* game.rs 214-252: the bytes run_game_start_sequence exchanges, in order
start_script(garbage, tiles, is_first) ==
    (IF is_first THEN <<96, 41>> ELSE <<96, 2, 2, 2, 121, 96, 41>>)
    \o garbage \o <<41>> \o tiles \o <<48, 0, 2, 2, 32>>

\* mutant: the start sequence keeps the queue and the opponent height
CmdStartGame_keeps_state ==
    /\ dequeued("StartGame")
    /\ phase' = "GameStarting"
    /\ script' = start_script(Head(inbox).garbage, Head(inbox).tiles,
                              Head(inbox).is_first)
    /\ gpc' = "script"
    /\ emitted' = <<>>
    /\ UNCHANGED <<music_byte, opponent_height, command_queue, game_started_at,
                   inboxOpen, gsite, xbyte, xdead, xOpen, cmdsSent>>
    /\ lastRet' = NoRet
    /\ startLog' = [cmd |-> Head(inbox), bytes |-> <<>>]
    /\ UNCHANGED <<bpc, linkVars, auxVars>>

\* game.rs 156-160, 209-212: StartGame enters run_game_start_sequence
CmdStartGame ==
    /\ dequeued("StartGame")
    /\ phase' = "GameStarting"
    /\ command_queue' = <<>>
    /\ opponent_height' = 0
    /\ script' = start_script(Head(inbox).garbage, Head(inbox).tiles,
                              Head(inbox).is_first)
    /\ gpc' = "script"
    /\ emitted' = <<>>
    /\ UNCHANGED <<music_byte, game_started_at, inboxOpen, gsite, xbyte, xdead,
                   xOpen, cmdsSent>>
    /\ lastRet' = NoRet
    /\ startLog' = [cmd |-> Head(inbox), bytes |-> <<>>]
    /\ UNCHANGED <<bpc, linkVars, auxVars>>

\* game.rs 315-316: exchange_n begins the exchange of the next script byte
ScriptExchange ==
    /\ gpc = "script"
    /\ exchange("script", Head(script))
    /\ emitted' = <<>>
    /\ UNCHANGED <<phase, music_byte, opponent_height, command_queue,
                   game_started_at, inbox, inboxOpen, script, cmdsSent>>
    /\ lastRet' = NoRet
    /\ UNCHANGED <<bpc, linkVars, auxVars>>

\* mutant: after every script byte control goes back to the run loop, which
\* looks at the inbox
ScriptReturn_back_to_loop(r) ==
    /\ returns("script")
    /\ script' = Tail(script)
    /\ IF Tail(script) = <<>>
       THEN /\ game_started_at' = [some |-> TRUE, elapsed |-> 0]
            /\ phase' = "InGame"
       ELSE UNCHANGED <<game_started_at, phase>>
    /\ gpc' = "drain"
    /\ emitted' = <<>>
    /\ UNCHANGED <<music_byte, opponent_height, command_queue, inbox, inboxOpen,
                   xbyte, xdead, cmdsSent>>
    /\ lastRet' = Returned("script", r)
    /\ startLog' = kept
    /\ UNCHANGED <<bpc, linkVars, auxVars>>

\* game.rs 316-319, 254-256: the result is dropped; after the last byte the
\* start time is recorded and the phase becomes InGame
ScriptReturn(r) ==
    /\ returns("script")
    /\ script' = Tail(script)
    /\ IF Tail(script) = <<>>
       THEN /\ game_started_at' = [some |-> TRUE, elapsed |-> 0]
            /\ phase' = "InGame"
            /\ gpc' = "drain"
       ELSE /\ gpc' = "script"
            /\ UNCHANGED <<game_started_at, phase>>
    /\ emitted' = <<>>
    /\ UNCHANGED <<music_byte, opponent_height, command_queue, inbox, inboxOpen,
                   xbyte, xdead, cmdsSent>>
    /\ lastRet' = Returned("script", r)
    /\ startLog' = kept
    /\ UNCHANGED <<bpc, linkVars, auxVars>>

\* game.rs 161-163
CmdSetHeight ==
    /\ dequeued("SetHeight")
    /\ opponent_height' = Head(inbox).arg
    /\ emitted' = <<>>
    /\ UNCHANGED <<phase, music_byte, command_queue, game_started_at,
                   inboxOpen, gpc, gsite, xbyte, xdead, script, xOpen, cmdsSent>>
    /\ lastRet' = NoRet
    /\ startLog' = kept
    /\ UNCHANGED <<bpc, linkVars, auxVars>>

\* game.rs 164-166
CmdQueueCommand ==
    /\ dequeued("QueueCommand")
    /\ command_queue' = Append(command_queue, Head(inbox).arg)
    /\ emitted' = <<>>
    /\ UNCHANGED <<phase, music_byte, opponent_height, game_started_at,
                   inboxOpen, gpc, gsite, xbyte, xdead, script, xOpen, cmdsSent>>
    /\ lastRet' = NoRet
    /\ startLog' = kept
    /\ UNCHANGED <<bpc, linkVars, auxVars>>

\* mutant: Stop is taken from the inbox and the loop goes on
CmdStop_ignored ==
    /\ dequeued("Stop")
    /\ gpc' = "drain"
    /\ emitted' = <<>>
    /\ UNCHANGED <<phase, music_byte, opponent_height, command_queue,
                   game_started_at, inboxOpen, gsite, xbyte, xdead, script,
                   xOpen, cmdsSent>>
    /\ lastRet' = NoRet
    /\ startLog' = kept
    /\ UNCHANGED <<bpc, linkVars, auxVars>>

\* game.rs 167-170, 106-108
CmdStop ==
    /\ dequeued("Stop")
    /\ gpc' = "done"
    /\ emitted' = <<>>
    /\ UNCHANGED <<phase, music_byte, opponent_height, command_queue,
                   game_started_at, inboxOpen, gsite, xbyte, xdead, script,
                   xOpen, cmdsSent>>
    /\ lastRet' = NoRet
    /\ startLog' = kept
    /\ UNCHANGED <<bpc, linkVars, auxVars>>

\* game.rs 172, 179: the inbox is empty, process_commands returns false
DrainEmpty ==
    /\ gpc = "drain"
    /\ inbox = <<>> /\ inboxOpen
    /\ gpc' = "phase"
    /\ emitted' = <<>>
    /\ UNCHANGED <<phase, music_byte, opponent_height, command_queue,
                   game_started_at, inbox, inboxOpen, gsite, xbyte, xdead,
                   script, xOpen, cmdsSent>>
    /\ lastRet' = NoRet
    /\ startLog' = kept
    /\ UNCHANGED <<bpc, linkVars, auxVars>>

\* game.rs 173-176, 106-108: the sender of the inbox is gone
DrainDisconnected ==
    /\ gpc = "drain"
    /\ inbox = <<>> /\ ~inboxOpen
    /\ gpc' = "done"
    /\ emitted' = <<>>
    /\ UNCHANGED <<phase, music_byte, opponent_height, command_queue,
                   game_started_at, inbox, inboxOpen, gsite, xbyte, xdead,
                   script, xOpen, cmdsSent>>
    /\ lastRet' = NoRet
    /\ startLog' = kept
    /\ UNCHANGED <<bpc, linkVars, auxVars>>

\* game.rs 112-114, 122-128: the phases that only sleep
PhaseSleep ==
    /\ gpc = "phase"
    /\ phase \in {"WaitingForGame", "WaitingForStart", "GameStarting"}
    /\ gpc' = "drain"
    /\ emitted' = <<>>
    /\ UNCHANGED <<phase, music_byte, opponent_height, command_queue,
                   game_started_at, inbox, inboxOpen, gsite, xbyte, xdead,
                   script, xOpen, cmdsSent>>
    /\ lastRet' = NoRet
    /\ startLog' = kept
    /\ UNCHANGED <<bpc, linkVars, auxVars>>

\* mutant: the probe sends the start byte 0x60
ProbeExchange_start_byte ==
    /\ gpc = "phase" /\ phase = "Probing"
    /\ exchange("probe", 96)
    /\ emitted' = <<>>
    /\ UNCHANGED <<phase, music_byte, opponent_height, command_queue,
                   game_started_at, inbox, inboxOpen, script, cmdsSent>>
    /\ lastRet' = NoRet
    /\ UNCHANGED <<bpc, linkVars, auxVars>>

\* game.rs 115-117, 184-186
ProbeExchange ==
    /\ gpc = "phase" /\ phase = "Probing"
    /\ exchange("probe", 41)
    /\ emitted' = <<>>
    /\ UNCHANGED <<phase, music_byte, opponent_height, command_queue,
                   game_started_at, inbox, inboxOpen, script, cmdsSent>>
    /\ lastRet' = NoRet
    /\ UNCHANGED <<bpc, linkVars, auxVars>>

\* mutant: a probe that did not get 0x55 is retried without going back to the
\* top of the loop, where the inbox is looked at
ProbeReturn_retry_in_place(r) ==
    /\ returns("probe")
    /\ IF r.ok /\ r.v = 85
       THEN /\ emitted' = <<Event("Connected", 0)>>
            /\ phase' = "MusicSelect"
            /\ gpc' = "drain"
       ELSE /\ emitted' = <<>>
            /\ UNCHANGED phase
            /\ gpc' = "phase"
    /\ UNCHANGED <<music_byte, opponent_height, command_queue, game_started_at,
                   inbox, inboxOpen, xbyte, xdead, script, cmdsSent>>
    /\ lastRet' = Returned("probe", r)
    /\ startLog' = kept
    /\ UNCHANGED <<bpc, linkVars, auxVars>>

\* game.rs 186-201
ProbeReturn(r) ==
    /\ returns("probe")
    /\ IF r.ok /\ r.v = 85
       THEN /\ emitted' = <<Event("Connected", 0)>>
            /\ phase' = "MusicSelect"
       ELSE /\ emitted' = <<>>
            /\ UNCHANGED phase
    /\ gpc' = "drain"
    /\ UNCHANGED <<music_byte, opponent_height, command_queue, game_started_at,
                   inbox, inboxOpen, xbyte, xdead, script, cmdsSent>>
    /\ lastRet' = Returned("probe", r)
    /\ startLog' = kept
    /\ UNCHANGED <<bpc, linkVars, auxVars>>

\* game.rs 118-121, 204-206
MusicExchange ==
    /\ gpc = "phase" /\ phase = "MusicSelect"
    /\ exchange("music", music_byte)
    /\ emitted' = <<>>
    /\ UNCHANGED <<phase, music_byte, opponent_height, command_queue,
                   game_started_at, inbox, inboxOpen, script, cmdsSent>>
    /\ lastRet' = NoRet
    /\ UNCHANGED <<bpc, linkVars, auxVars>>

\* game.rs 206, 120: the response is ignored
MusicReturn(r) ==
    /\ returns("music")
    /\ gpc' = "drain"
    /\ emitted' = <<>>
    /\ UNCHANGED <<phase, music_byte, opponent_height, command_queue,
                   game_started_at, inbox, inboxOpen, xbyte, xdead, script,
                   cmdsSent>>
    /\ lastRet' = Returned("music", r)
    /\ startLog' = kept
    /\ UNCHANGED <<bpc, linkVars, auxVars>>

\* mutant: the newest queued command is sent first
TickExchange_pop_last ==
    /\ gpc = "phase" /\ phase = "InGame"
    /\ IF command_queue # <<>>
       THEN /\ exchange("tick", command_queue[Len(command_queue)])
            /\ command_queue' = Take(command_queue, Len(command_queue) - 1)
       ELSE /\ exchange("tick", opponent_height)
            /\ UNCHANGED command_queue
    /\ emitted' = <<>>
    /\ UNCHANGED <<phase, music_byte, opponent_height, game_started_at, inbox,
                   inboxOpen, script, cmdsSent>>
    /\ lastRet' = NoRet
    /\ UNCHANGED <<bpc, linkVars, auxVars>>

\* game.rs 129-131, 259-267: queued commands go before the opponent height
TickExchange ==
    /\ gpc = "phase" /\ phase = "InGame"
    /\ IF command_queue # <<>>
       THEN /\ exchange("tick", Head(command_queue))
            /\ command_queue' = Tail(command_queue)
       ELSE /\ exchange("tick", opponent_height)
            /\ UNCHANGED command_queue
    /\ emitted' = <<>>
    /\ UNCHANGED <<phase, music_byte, opponent_height, game_started_at, inbox,
                   inboxOpen, script, cmdsSent>>
    /\ lastRet' = NoRet
    /\ UNCHANGED <<bpc, linkVars, auxVars>>

\* mutant: the window still covers the 3000th millisecond
in_startup_window_inclusive ==
    game_started_at.some /\ game_started_at.elapsed <= 3000

\* game.rs 288-296: the topped-out signal is ignored right after the start
in_startup_window ==
    game_started_at.some /\ game_started_at.elapsed < 3000

\* mutant: 20 still counts as a height
interpret_game_byte_height_20(value) ==
    IF value <= 20 THEN [ev |-> <<Event("Height", value)>>, push |-> <<>>]
    ELSE IF value >= 128 /\ value <= 133
         THEN [ev |-> <<Event("Lines", value)>>, push |-> <<>>]
    ELSE IF value = 119 THEN [ev |-> <<Event("Win", 0)>>, push |-> <<>>]
    ELSE IF value = 170
         THEN IF in_startup_window
              THEN [ev |-> <<>>, push |-> <<>>]
              ELSE [ev |-> <<Event("Lose", 0)>>, push |-> <<>>]
    ELSE IF value = 255
         THEN [ev |-> <<Event("ScreenFilled", 0)>>, push |-> <<67>>]
    ELSE [ev |-> <<>>, push |-> <<>>]

\* game.rs 277-305: the events sent and the bytes pushed on command_queue
interpret_game_byte(value) ==
    IF value < 20 THEN [ev |-> <<Event("Height", value)>>, push |-> <<>>]
    ELSE IF value >= 128 /\ value <= 133
         THEN [ev |-> <<Event("Lines", value)>>, push |-> <<>>]
    ELSE IF value = 119 THEN [ev |-> <<Event("Win", 0)>>, push |-> <<>>]
    ELSE IF value = 170
         THEN IF in_startup_window
              THEN [ev |-> <<>>, push |-> <<>>]
              ELSE [ev |-> <<Event("Lose", 0)>>, push |-> <<>>]
    ELSE IF value = 255
         THEN [ev |-> <<Event("ScreenFilled", 0)>>, push |-> <<67>>]
    ELSE [ev |-> <<>>, push |-> <<>>]

\* mutant: the follow-up byte goes to the head of the queue
TickReturn_push_front(r) ==
    /\ returns("tick")
    /\ IF r.ok
       THEN /\ emitted' = interpret_game_byte(r.v).ev
            /\ command_queue' = interpret_game_byte(r.v).push \o command_queue
       ELSE /\ emitted' = <<>>
            /\ UNCHANGED command_queue
    /\ gpc' = "drain"
    /\ UNCHANGED <<phase, music_byte, opponent_height, game_started_at, inbox,
                   inboxOpen, xbyte, xdead, script, cmdsSent>>
    /\ lastRet' = Returned("tick", r)
    /\ startLog' = kept
    /\ UNCHANGED <<bpc, linkVars, auxVars>>

\* mutant: an exchange error ends the session loop
TickReturn_fatal(r) ==
    /\ returns("tick")
    /\ IF r.ok
       THEN /\ emitted' = interpret_game_byte(r.v).ev
            /\ command_queue' = command_queue \o interpret_game_byte(r.v).push
            /\ gpc' = "drain"
       ELSE /\ emitted' = <<>>
            /\ UNCHANGED command_queue
            /\ gpc' = "done"
    /\ UNCHANGED <<phase, music_byte, opponent_height, game_started_at, inbox,
                   inboxOpen, xbyte, xdead, script, cmdsSent>>
    /\ lastRet' = Returned("tick", r)
    /\ startLog' = kept
    /\ UNCHANGED <<bpc, linkVars, auxVars>>

\* game.rs 267-274
TickReturn(r) ==
    /\ returns("tick")
    /\ IF r.ok
       THEN /\ emitted' = interpret_game_byte(r.v).ev
            /\ command_queue' = command_queue \o interpret_game_byte(r.v).push
       ELSE /\ emitted' = <<>>
            /\ UNCHANGED command_queue
    /\ gpc' = "drain"
    /\ UNCHANGED <<phase, music_byte, opponent_height, game_started_at, inbox,
                   inboxOpen, xbyte, xdead, script, cmdsSent>>
    /\ lastRet' = Returned("tick", r)
    /\ startLog' = kept
    /\ UNCHANGED <<bpc, linkVars, auxVars>>

\* ------------------------------------- the session's environment
\* websocket.rs 147, 162, 188, 207: the front-end puts a command in the inbox
WsSend(c) ==
    /\ inboxOpen
    /\ cmdsSent < MaxCmds
    /\ cmdsSent' = cmdsSent + 1
    /\ inbox' = Append(inbox, c)
    /\ UNCHANGED <<phase, music_byte, opponent_height, command_queue,
                   game_started_at, inboxOpen, gpc, gsite, xbyte, xdead, script,
                   emitted, lastRet, startLog, xOpen>>
    /\ UNCHANGED <<bpc, linkVars, auxVars>>

\* the sender of the inbox is dropped
WsDrop ==
    /\ inboxOpen
    /\ inboxOpen' = FALSE
    /\ UNCHANGED <<phase, music_byte, opponent_height, command_queue,
                   game_started_at, inbox, gpc, gsite, xbyte, xdead, script,
                   emitted, lastRet, startLog, xOpen, cmdsSent>>
    /\ UNCHANGED <<bpc, linkVars, auxVars>>

\* bgb.rs 120, 140, 160, 222: the background thread of the transport returns
LinkDown ==
    /\ bpc # "ended"
    /\ bpc' = "ended"
    /\ UNCHANGED <<gameVars, linkVars, auxVars>>

\* wall-clock time passes after the start script
Elapse ==
    /\ game_started_at.some
    /\ game_started_at.elapsed < MaxElapsed
    /\ game_started_at' = [game_started_at EXCEPT !.elapsed = @ + ElapseStep]
    /\ UNCHANGED <<phase, music_byte, opponent_height, command_queue, inbox,
                   inboxOpen, gpc, gsite, xbyte, xdead, script, emitted, lastRet, startLog, xOpen,
                   cmdsSent>>
    /\ UNCHANGED <<bpc, linkVars, auxVars>>

\* the steps of the session thread
GameStep ==
    \/ CmdSetGame
    \/ CmdSetMusic
    \/ CmdConfirmMusic
    \/ \E r \in exchange_results : ConfirmReturn(r)
    \/ CmdStartGame
    \/ ScriptExchange
    \/ \E r \in exchange_results : ScriptReturn(r)
    \/ CmdSetHeight
    \/ CmdQueueCommand
    \/ CmdStop
    \/ DrainEmpty
    \/ DrainDisconnected
    \/ PhaseSleep
    \/ ProbeExchange
    \/ \E r \in exchange_results : ProbeReturn(r)
    \/ MusicExchange
    \/ \E r \in exchange_results : MusicReturn(r)
    \/ TickExchange
    \/ \E r \in exchange_results : TickReturn(r)

NextGame ==
    \/ GameStep
    \/ \E c \in Commands : WsSend(c)
    \/ WsDrop
    \/ LinkDown
    \/ Elapse

SpecGame == Init /\ [][NextGame]_vars

\* the session thread keeps running: a step it can take is eventually taken
\* (an exchange in progress returns after 5 s at the latest)
FairSpecGame == SpecGame /\ WF_vars(GameStep)

\* -------------------------------------------------------------- SpecStart
\* the session followed from the middle of a game that has been on for
\* longer than the time the model follows: the last tick has sent the
\* opponent height 7, then QueueCommand(0x34) has been taken from the inbox,
\* which is empty now
InitStart ==
    /\ InitCommon
    /\ phase = "InGame"
    /\ opponent_height = 7
    /\ command_queue = <<52>>
    /\ game_started_at = [some |-> TRUE, elapsed |-> MaxElapsed]
    /\ xbyte = 7
    /\ next_timestamp = u32(0)
    /\ exchange_count = 0
    /\ bpc = "poll"
    /\ client = "live"
    /\ hpc = "done"
    /\ codec = CodecIdle
    /\ bridge = BridgeIdle

SpecStart == InitStart /\ [][NextGame]_vars

\* ------------------------------------------------------------ PacketCodec
\* the packets and the 8-byte buffers the conversions are applied to
CodecPackets ==
    {BgbPacket(c, d, e1, e2, [hi |-> h, lo |-> l]) :
        c \in {0, 104, 255}, d \in {0, 85, 255}, e1 \in {0, 129}, e2 \in {0, 255},
        h \in {0, 1, 258, 32768, 65535}, l \in {0, 1, 772, 32768, 65535}}

CodecBuffers ==
    {<<b1, b2, b3, b4>> \o ts :
        b1 \in {0, 105}, b2 \in {0, 255}, b3 \in {0, 128}, b4 \in {0, 255},
        ts \in [1..4 -> {0, 1, 128, 255}]}

InitCodec ==
    /\ InitBase
    /\ bridge = BridgeIdle
    /\ \/ \E p \in CodecPackets :
              codec = [CodecIdle EXCEPT !.pc = "packet", !.pkt = p, !.pkt0 = p]
       \/ \E b \in CodecBuffers :
              codec = [CodecIdle EXCEPT !.pc = "buffer", !.buf = b, !.buf0 = b]

\* protocol.rs 24-27: the packet at hand is encoded
CodecEncode ==
    /\ codec.pc \in {"packet", "decoded"}
    /\ codec' = [codec EXCEPT !.buf = to_bytes(codec.pkt),
                              !.pc = IF @ = "packet" THEN "encoded" ELSE "done_b"]
    /\ UNCHANGED <<bgbVars, chanVars, clientVars, sockVars, histVars, gameVars,
                   bridge, hpc>>

\* protocol.rs 29-37: the buffer at hand is decoded
CodecDecode ==
    /\ codec.pc \in {"buffer", "encoded"}
    /\ Len(codec.buf) >= PacketSize
    /\ codec' = [codec EXCEPT !.pkt = from_bytes(codec.buf),
                              !.pc = IF @ = "buffer" THEN "decoded" ELSE "done_p"]
    /\ UNCHANGED <<bgbVars, chanVars, clientVars, sockVars, histVars, gameVars,
                   bridge, hpc>>

NextCodec ==
    \/ CodecEncode
    \/ CodecDecode

SpecCodec == InitCodec /\ [][NextCodec]_vars

\* ----------------------------------------------------------------- Bridge
\* bridge.rs 9-14: 0xCAFE eight times, 0xDEADBEEF four times
MAGIC_PREFIX ==
    <<202, 254, 202, 254, 202, 254, 202, 254,
      202, 254, 202, 254, 202, 254, 202, 254,
      222, 173, 190, 239, 222, 173, 190, 239,
      222, 173, 190, 239, 222, 173, 190, 239>>

\* bridge.rs 17: "PRNT"
PRINTER_SUFFIX == <<80, 82, 78, 84>>

\* messages the browser sends: the two magic messages, magic with another
\* suffix byte, 36 bytes with a wrong first and a wrong last prefix byte, the
\* printer magic one byte longer and one byte shorter, and short data
BridgeInputs ==
    {MAGIC_PREFIX \o PRINTER_SUFFIX,
     MAGIC_PREFIX \o <<1, 2, 3, 4>>,
     MAGIC_PREFIX \o <<80, 82, 78, 85>>,
     [MAGIC_PREFIX EXCEPT ![1] = 203] \o PRINTER_SUFFIX,
     [MAGIC_PREFIX EXCEPT ![32] = 238] \o <<1, 2, 3, 4>>,
     MAGIC_PREFIX \o PRINTER_SUFFIX \o <<0>>,
     Take(MAGIC_PREFIX \o PRINTER_SUFFIX, 35),
     <<>>, <<41>>, <<1, 2, 3>>}

\* the byte the peer usually answers to byte b, and the other byte it answers
PeerReply(b) == 255 - b

OddReplies == {85}

\* bgb.rs 49-53: what exchange_byte(b) can return to handle_message
bridge_results(b) ==
    IF bpc = "ended" THEN {Err}
    ELSE {Ok(PeerReply(b)), Err}
         \cup (IF bridge.odd < MaxOdd THEN {Ok(v) : v \in OddReplies} ELSE {})


\* mutant: the length of the message is not compared with 36
is_printer_magic_any_length(data) ==
    /\ Len(data) >= 36
    /\ Take(data, 32) = MAGIC_PREFIX
    /\ SubSeq(data, 33, 36) = PRINTER_SUFFIX

\* bridge.rs 36
is_printer_magic(data) ==
    /\ Len(data) = 36
    /\ Take(data, 32) = MAGIC_PREFIX
    /\ SubSeq(data, 33, 36) = PRINTER_SUFFIX

\* bridge.rs 41
is_timing_magic(data) ==
    /\ Len(data) = 36
    /\ Take(data, 32) = MAGIC_PREFIX

\* bridge.rs 34-46: handle_message is called; the magic messages return at
\* once, other data enters the loop with an empty response
HandleMessage(data) ==
    /\ bridge.pc \in {"idle", "ret"}
    /\ bridge' =
          IF is_printer_magic(data)
          THEN [BridgeIdle EXCEPT !.pc = "ret", !.data = data,
                                  !.result = [ok |-> TRUE, bytes |-> <<0>>]]
          ELSE IF is_timing_magic(data)
          THEN [BridgeIdle EXCEPT !.pc = "ret", !.data = data,
                                  !.result = [ok |-> TRUE, bytes |-> <<1>>]]
          ELSE [BridgeIdle EXCEPT !.pc = "loop", !.data = data]
    /\ UNCHANGED <<bgbVars, chanVars, clientVars, sockVars, histVars, gameVars,
                   codec, hpc>>

\* bridge.rs 47-50: the next byte is exchanged; an error is returned at once
\* by `?`, a response byte is pushed
BridgeExchange ==
    /\ bridge.pc = "loop"
    /\ bridge.i < Len(bridge.data)
    /\ \E r \in bridge_results(bridge.data[bridge.i + 1]) :
          bridge' =
             [bridge EXCEPT
                !.log = Append(@, [b |-> bridge.data[bridge.i + 1],
                                   ok |-> r.ok, v |-> r.v]),
                !.odd = IF r.ok /\ r.v # PeerReply(bridge.data[bridge.i + 1])
                        THEN @ + 1 ELSE @,
                !.i = IF r.ok THEN @ + 1 ELSE @,
                !.response = IF r.ok THEN Append(@, r.v) ELSE @,
                !.pc = IF r.ok THEN "loop" ELSE "ret",
                !.result = IF r.ok THEN @ ELSE [ok |-> FALSE, bytes |-> <<>>]]
    /\ UNCHANGED <<bgbVars, chanVars, clientVars, sockVars, histVars, gameVars,
                   codec, hpc>>

\* bridge.rs 51: every byte has been exchanged
BridgeReturn ==
    /\ bridge.pc = "loop"
    /\ bridge.i = Len(bridge.data)
    /\ bridge' = [bridge EXCEPT !.pc = "ret",
                                !.result = [ok |-> TRUE, bytes |-> bridge.response]]
    /\ UNCHANGED <<bgbVars, chanVars, clientVars, sockVars, histVars, gameVars,
                   codec, hpc>>

NextBridge ==
    \/ \E data \in BridgeInputs : HandleMessage(data)
    \/ BridgeExchange
    \/ BridgeReturn
    \/ LinkDown

SpecBridge == Init /\ [][NextBridge]_vars

\* ------------------------------------------------------------ properties
\* a step of BgbProcess that handles a packet with command c
Handles(c) ==
    /\ bpc = "proc"
    /\ read_buf' # read_buf
    /\ front_packet.command = c

\* exactly one packet is written in the step: command c, data d, timestamp t
WritesOne(c, d, t) ==
    /\ Len(sent') = Len(sent) + 1
    /\ SubSeq(sent', 1, Len(sent)) = sent
    /\ sent'[Len(sent')].command = c
    /\ sent'[Len(sent')].data = d
    /\ sent'[Len(sent')].timestamp = t

\* the value v reaches the result channel for the outstanding exchange
Delivers(v) ==
    client = "live" => recv_ch' = Append(recv_ch, [v |-> v, call |-> pending_call])

\* C1: at most one exchange is outstanding: a sync1 is written only while
\* waiting_for_response is false, and the sync1 packets written are the
\* exchanges completed by a sync2 or a colliding sync1 plus the one outstanding
C1_OneOutstanding ==
    [][/\ Sync1Sent' # Sync1Sent =>
             ~waiting_for_response /\ waiting_for_response'
       /\ Sync1Sent' = nCleared' + (IF waiting_for_response' THEN 1 ELSE 0)]_vars

C1_Witness ==
    /\ Sync1Sent = 2
    /\ nCleared = 1
    /\ waiting_for_response

\* C2: a response that completes the sync1 of a call that timed out is never
\* returned as the result of an exchange_byte call
C2_LateResponseDiscarded ==
    xres.kind = "ok" => xres.tag \notin timedOut

\* C3: once exchange_byte has returned a timeout, the transport does not keep
\* the slot for that exchange: it is not waiting for the response to it
C3_SlotFreedOnTimeout ==
    ~(bpc # "ended" /\ waiting_for_response /\ pending_call \in timedOut)

\* C4: a sync1 with data D that arrives while byte P is outstanding is answered
\* with a sync2 carrying P and the incoming timestamp, clears the flag and
\* delivers D for the outstanding exchange
C4_Collision ==
    [][(Handles(104) /\ waiting_for_response) =>
          /\ WritesOne(105, pending_byte, front_packet.timestamp)
          /\ ~waiting_for_response'
          /\ Delivers(front_packet.data)]_vars

C4_Witness ==
    /\ lastHandled = "collision"
    /\ ~waiting_for_response
    /\ sent # <<>>
    /\ sent[Len(sent)].command = 105
    /\ sent[Len(sent)].data = pending_byte
    /\ pending_byte \in CallBytes
    /\ recv_ch # <<>>
    /\ recv_ch[Len(recv_ch)].v \in PeerData

\* C5: a sync2 that arrives while an exchange is outstanding clears the flag,
\* delivers its data field once and writes no packet
C5_Completion ==
    [][(Handles(105) /\ waiting_for_response) =>
          /\ ~waiting_for_response'
          /\ Delivers(front_packet.data)
          /\ sent' = sent]_vars

C5_Witness ==
    /\ lastHandled = "sync2"
    /\ ~waiting_for_response
    /\ Len(recv_ch) = 1
    /\ recv_ch[1].v \in PeerData
    /\ Len(sent) = 1

\* C6: a sync2 that arrives with nothing outstanding writes no packet, delivers
\* nothing and leaves the flag, the pending byte and the clock as they were
C6_StaleSync2 ==
    [][(Handles(105) /\ ~waiting_for_response) =>
          UNCHANGED <<sent, recv_ch, waiting_for_response, pending_byte,
                      next_timestamp>>]_vars

C6_Witness ==
    /\ lastHandled = "stale"
    /\ ~waiting_for_response
    /\ Sync1Sent = 1
    /\ nCleared = 1

\* C7: a sync1 that arrives with nothing outstanding is answered with one
\* sync2 whose data is 0; nothing is delivered and the flag stays false
C7_Unsolicited ==
    [][(Handles(104) /\ ~waiting_for_response) =>
          /\ WritesOne(105, 0, front_packet.timestamp)
          /\ recv_ch' = recv_ch
          /\ ~waiting_for_response']_vars

C7_Witness ==
    /\ lastHandled = "unsolicited"
    /\ ~waiting_for_response
    /\ pending_byte # 0
    /\ sent[Len(sent)].command = 105
    /\ sent[Len(sent)].data = 0

\* C8: the session begins an exchange only when every exchange it began
\* before has returned
C8_StrictSequencing ==
    [][xOpen' > xOpen => xOpen = 0]_vars

C8_Witness ==
    /\ gpc = "xchg"
    /\ gsite = "script"
    /\ Len(script) = 1
    /\ xOpen = 1

\* C9: an exchange_byte call that starts after the background loop has ended
\* never returns Ok; once it has returned, it has returned an error
C9_NoSuccessAfterEnd ==
    xres.afterEnd =>
        /\ xres.kind # "ok"
        /\ cpc = "idle" => xres.kind \in {"died", "timeout"}

C9_Witness ==
    /\ xres.afterEnd
    /\ xres.kind = "died"
    /\ cpc = "idle"
    /\ recv_ch # <<>>

\* C10: once the transport's background thread has ended, the session loop
\* eventually terminates, with or without a Stop command
C10_ImplicitStop ==
    (bpc = "ended") ~> (gpc = "done")

\* a step in which the exchange begun at call site `site` returns
ReturnsAt(site) ==
    gpc = "xchg" /\ gsite = site /\ gpc' # "xchg"

sessionVars ==
    <<phase, music_byte, opponent_height, command_queue, gsite, xbyte, script,
      emitted, xOpen>>

\* C12: the step that takes Stop from the inbox, and the step that finds the
\* inbox empty and disconnected, end the loop at once without an exchange, an
\* event or a change of the session's fields; once the loop has ended there
\* is no exchange, no event and no change of the session's fields any more,
\* and what is in the inbox stays there
C12_StopTerminates ==
    [][/\ (gpc = "drain" /\ inbox # <<>> /\ Head(inbox).cmd = "Stop"
             /\ inbox' = Tail(inbox)) =>
            /\ gpc' = "done"
            /\ emitted' = <<>>
            /\ UNCHANGED <<phase, music_byte, opponent_height, command_queue,
                           xOpen, xbyte>>
       /\ (gpc = "drain" /\ inbox = <<>> /\ ~inboxOpen /\ gpc' # gpc) =>
            /\ gpc' = "done"
            /\ emitted' = <<>>
            /\ UNCHANGED <<phase, music_byte, opponent_height, command_queue,
                           xOpen, xbyte>>
       /\ gpc = "done" =>
            /\ gpc' = "done"
            /\ UNCHANGED sessionVars
            /\ emitted = <<>>
            /\ Len(inbox') >= Len(inbox)
            /\ SubSeq(inbox', 1, Len(inbox)) = inbox]_vars

C12_Witness ==
    /\ gpc = "done"
    /\ inboxOpen
    /\ phase = "InGame"
    /\ inbox # <<>>
    /\ xOpen = 0

\* a Stop command is in the inbox
StopQueued ==
    \E i \in 1..Len(inbox) : inbox[i].cmd = "Stop"

\* C13: once a Stop command is in the inbox the session loop ends, whatever
\* the phase, whatever is in the inbox before the Stop and whatever the
\* exchanges return, a timeout every time included
C13_StopLiveness ==
    StopQueued ~> (gpc = "done")

C13_Witness ==
    /\ gpc = "done"
    /\ inboxOpen
    /\ bpc # "ended"
    /\ phase = "Probing"
    /\ lastRet = NoRet
    /\ cmdsSent = MaxCmds
    /\ inbox = <<>>

\* C14: an exchange begun in Probing sends 0x29; when it returns 0x55 exactly
\* one Connected event is sent and the phase becomes MusicSelect; when it
\* returns any other byte, or fails, no event is sent and the phase stays
\* Probing
C14_Probe ==
    [][/\ (gpc = "phase" /\ phase = "Probing" /\ gpc' = "xchg") =>
            gsite' = "probe" /\ xbyte' = 41
       /\ ReturnsAt("probe") =>
            /\ phase = "Probing"
            /\ xbyte = 41
            /\ IF lastRet'.ok /\ lastRet'.v = 85
               THEN emitted' = <<Event("Connected", 0)>> /\ phase' = "MusicSelect"
               ELSE emitted' = <<>> /\ phase' = "Probing"]_vars

C14_Witness ==
    /\ lastRet = [site |-> "probe", ok |-> TRUE, v |-> 85]
    /\ emitted = <<Event("Connected", 0)>>
    /\ phase = "MusicSelect"
    /\ xbyte = 41

\* C15: an InGame tick always begins an exchange; with a non-empty command
\* queue it sends the head of the queue and removes that entry only, with an
\* empty queue it sends opponent_height and the queue stays empty; the queue
\* does not change while the exchange is in progress
C15_QueuePriority ==
    [][/\ (gpc = "phase" /\ phase = "InGame" /\ gpc' # gpc) =>
            /\ gpc' = "xchg" /\ gsite' = "tick"
            /\ IF command_queue # <<>>
               THEN /\ xbyte' = command_queue[1]
                    /\ Len(command_queue') = Len(command_queue) - 1
                    /\ \A i \in 1..Len(command_queue') :
                           command_queue'[i] = command_queue[i + 1]
               ELSE /\ xbyte' = opponent_height
                    /\ command_queue' = <<>>
       /\ (gpc = "xchg" /\ gsite = "tick" /\ gpc' = "xchg") =>
            command_queue' = command_queue]_vars

C15_Witness ==
    /\ gpc = "xchg"
    /\ gsite = "tick"
    /\ xbyte = 67
    /\ command_queue = <<52>>
    /\ opponent_height = 0

\* C16: a tick that returns 0xAA less than 3000 ms after the start script
\* completed sends no event, one that returns it at 3000 ms or later sends
\* exactly one Lose; neither changes the phase or the command queue
C16_StartupNoise ==
    [][(ReturnsAt("tick") /\ lastRet'.ok /\ lastRet'.v = 170) =>
          /\ game_started_at.some
          /\ game_started_at.elapsed < 3000 => emitted' = <<>>
          /\ game_started_at.elapsed >= 3000 => emitted' = <<Event("Lose", 0)>>
          /\ phase' = phase
          /\ command_queue' = command_queue]_vars

C16_Witness ==
    /\ lastRet = [site |-> "tick", ok |-> TRUE, v |-> 170]
    /\ game_started_at.elapsed >= 3000
    /\ emitted = <<Event("Lose", 0)>>
    /\ phase = "InGame"

\* the events the classification table gives for response byte v
TableEvents(v) ==
    CASE v < 20 -> <<Event("Height", v)>>
      [] v >= 128 /\ v <= 133 -> <<Event("Lines", v)>>
      [] v = 119 -> <<Event("Win", 0)>>
      [] v = 170 -> <<Event("Lose", 0)>>
      [] v = 255 -> <<Event("ScreenFilled", 0)>>
      [] OTHER -> <<>>

\* C17: a tick that returns byte v sends at most one semantic event; unless v
\* is 0xAA inside the startup window, the events sent are those of the table
\* for v, and where a tick returns, the classification of every byte 0..255
\* agrees with the table in the same way
C17_Classification ==
    [][(ReturnsAt("tick") /\ lastRet'.ok) =>
          /\ Len(emitted') <= 1
          /\ (lastRet'.v # 170 \/ game_started_at.elapsed >= 3000) =>
                 emitted' = TableEvents(lastRet'.v)
          /\ \A v \in 0..255 :
                 /\ Len(interpret_game_byte(v).ev) <= 1
                 /\ (v # 170 \/ game_started_at.elapsed >= 3000) =>
                        interpret_game_byte(v).ev = TableEvents(v)]_vars

C17_Witness ==
    /\ lastRet = [site |-> "tick", ok |-> TRUE, v |-> 133]
    /\ emitted = <<Event("Lines", 133)>>
    /\ phase = "InGame"

\* the bytes the start script of StartGame command c is to exchange
OpeningScript(is_first) ==
    IF is_first THEN <<96, 41>> ELSE <<96, 2, 2, 2, 121, 96, 41>>

ClosingScript == <<48, 0, 2, 2, 32>>

ScriptBytes(c) ==
    OpeningScript(c.is_first) \o c.garbage \o <<41>> \o c.tiles \o ClosingScript

IsPrefix(s, t) ==
    Len(s) <= Len(t) /\ SubSeq(t, 1, Len(s)) = s

\* C18: from the step that dequeues a StartGame the phase is GameStarting and
\* the bytes whose exchange has begun are a prefix of the opening script, the
\* garbage bytes, 0x29, the tile bytes and the closing script, each begun only
\* when the one before has returned; the phase leaves GameStarting only for
\* InGame, in the step in which the exchange of the last byte returns, and
\* InGame is entered in no other way
C18_StartScript ==
    [][/\ (gpc = "drain" /\ inbox # <<>> /\ Head(inbox).cmd = "StartGame"
             /\ inbox' = Tail(inbox)) =>
            /\ phase' = "GameStarting"
            /\ startLog' = [cmd |-> Head(inbox), bytes |-> <<>>]
       /\ phase' = "GameStarting" =>
            /\ IsPrefix(startLog'.bytes, ScriptBytes(startLog'.cmd))
            /\ xOpen' = 0 => startLog'.bytes # ScriptBytes(startLog'.cmd)
            /\ Len(startLog'.bytes) > Len(startLog.bytes) =>
                   xOpen = 0 /\ Len(startLog'.bytes) = Len(startLog.bytes) + 1
       /\ (phase = "GameStarting" /\ phase' # "GameStarting") =>
            /\ phase' = "InGame"
            /\ ReturnsAt("script")
            /\ startLog' = startLog
            /\ startLog.bytes = ScriptBytes(startLog.cmd)
       /\ (phase # "InGame" /\ phase' = "InGame") => phase = "GameStarting"]_vars

C18_Witness ==
    /\ phase = "InGame"
    /\ lastRet.site = "script"
    /\ startLog.cmd = StartGame(<<1, 2>>, <<16>>, TRUE)
    /\ startLog.bytes = <<96, 41, 1, 2, 41, 16, 48, 0, 2, 2, 32>>

\* C19: a packet that is encoded and decoded again is the packet it was, field
\* by field; an 8-byte buffer that is decoded and encoded again is the buffer
\* it was; an encoded packet is 8 bytes: command, data, extra1, extra2 and the
\* timestamp with its least significant byte first
C19_RoundTrip ==
    /\ codec.pc = "done_p" =>
          /\ codec.pkt.command = codec.pkt0.command
          /\ codec.pkt.data = codec.pkt0.data
          /\ codec.pkt.extra1 = codec.pkt0.extra1
          /\ codec.pkt.extra2 = codec.pkt0.extra2
          /\ codec.pkt.timestamp = codec.pkt0.timestamp
    /\ codec.pc = "done_b" => codec.buf = codec.buf0
    /\ codec.pc \in {"encoded", "done_p", "done_b"} =>
          /\ Len(codec.buf) = 8
          /\ \A i \in 1..8 : codec.buf[i] \in 0..255
          /\ codec.buf[1] = codec.pkt.command
          /\ codec.buf[2] = codec.pkt.data
          /\ codec.buf[3] = codec.pkt.extra1
          /\ codec.buf[4] = codec.pkt.extra2
          /\ codec.buf[5] + 256 * codec.buf[6] = codec.pkt.timestamp.lo
          /\ codec.buf[7] + 256 * codec.buf[8] = codec.pkt.timestamp.hi

C19_Witness ==
    /\ codec.pc = "done_p"
    /\ codec.pkt0 = BgbPacket(104, 85, 129, 0, [hi |-> 258, lo |-> 772])
    /\ codec.buf = <<104, 85, 129, 0, 4, 3, 2, 1>>
    /\ codec.pkt = codec.pkt0

\* handle_message has returned for a message that is one of the two magic
\* messages: the result is the one byte `code` and nothing was exchanged
MagicAnswer ==
    /\ bridge.result =
          [ok |-> TRUE,
           bytes |-> IF SubSeq(bridge.data, 33, 36) = <<80, 82, 78, 84>>
                     THEN <<0>> ELSE <<1>>]
    /\ bridge.log = <<>>

\* the message is 36 bytes long and begins with the magic sentinel
HasSentinel ==
    /\ Len(bridge.data) = 36
    /\ \A i \in 1..16 : bridge.data[i] = (IF i % 2 = 1 THEN 202 ELSE 254)
    /\ \A i \in 17..32 : bridge.data[i] = <<222, 173, 190, 239>>[((i - 17) % 4) + 1]

\* one exchange was made per byte of the message, in the order of the message
OnePerByte ==
    /\ Len(bridge.log) = Len(bridge.data)
    /\ \A i \in 1..Len(bridge.data) : bridge.log[i].b = bridge.data[i]

\* the result is the responses of the exchanges, in their order
ResponsesReturned ==
    /\ bridge.result.ok
    /\ Len(bridge.result.bytes) = Len(bridge.log)
    /\ \A i \in 1..Len(bridge.log) :
          bridge.log[i].ok /\ bridge.result.bytes[i] = bridge.log[i].v

\* C20: handle_message answers a 36-byte message that begins with the magic
\* sentinel with [0x00] when it ends in "PRNT" and with [0x01] otherwise,
\* without an exchange; for every other message it makes one exchange per
\* byte, in order, and returns the responses in that order, as many as the
\* message has bytes
C20_HandleMessage ==
    bridge.pc = "ret" =>
        IF HasSentinel THEN MagicAnswer
        ELSE OnePerByte /\ ResponsesReturned

\* C20, amended: as above as long as every exchange succeeds; the first
\* exchange that fails is the last one made, and handle_message returns its
\* error and no response bytes
C20_HandleMessageAmended ==
    bridge.pc = "ret" =>
        IF HasSentinel THEN MagicAnswer
        ELSE /\ Len(bridge.log) <= Len(bridge.data)
             /\ \A i \in 1..Len(bridge.log) :
                   /\ bridge.log[i].b = bridge.data[i]
                   /\ i < Len(bridge.log) => bridge.log[i].ok
             /\ IF \A i \in 1..Len(bridge.log) : bridge.log[i].ok
                THEN OnePerByte /\ ResponsesReturned
                ELSE ~bridge.result.ok /\ bridge.result.bytes = <<>>

C20_Witness ==
    /\ bridge.pc = "ret"
    /\ Len(bridge.data) = 36
    /\ ~HasSentinel
    /\ Len(bridge.log) = 3
    /\ ~bridge.log[3].ok
    /\ bridge.log[2].v = 85
    /\ ~bridge.result.ok
    /\ bpc # "ended"

\* ---------------------------------------------------------------- C21
\* t <= u as u32 values
u32_le(t, u) == t.hi < u.hi \/ (t.hi = u.hi /\ t.lo <= u.lo)

\* C21: every sync1 the loop has written carries a timestamp whose bit 31 is
\* 0, and the timestamps of the sync1 packets never decrease in the order
\* in which they were written
C21_ClockInvariant ==
    \A i \in 1..Len(sent) :
        sent[i].command = 104 =>
            /\ sent[i].timestamp.hi < Half \div 2
            /\ \A j \in i..Len(sent) :
                  sent[j].command = 104 =>
                      u32_le(sent[i].timestamp, sent[j].timestamp)

\* ---------------------------------------------------------------- C22
\* C22: the phase becomes Probing only from WaitingForGame, when SetGame is
\* taken from the inbox; it becomes MusicSelect only from Probing, when the
\* probe returns 0x55; it becomes WaitingForStart only from MusicSelect, when
\* the exchange of 0x50 begun for ConfirmMusic returns
C22_ListedTransitions ==
    [][/\ (phase' = "Probing" /\ phase # "Probing") =>
              /\ phase = "WaitingForGame"
              /\ gpc = "drain" /\ inbox # <<>> /\ Head(inbox).cmd = "SetGame"
       /\ (phase' = "MusicSelect" /\ phase # "MusicSelect") =>
              /\ phase = "Probing"
              /\ lastRet' = Returned("probe", Ok(85))
       /\ (phase' = "WaitingForStart" /\ phase # "WaitingForStart") =>
              /\ phase = "MusicSelect"
              /\ lastRet'.site = "confirm" /\ xbyte = 80]_vars

\* ---------------------------------------------------------------- C23
\* the step takes a StartGame command from the inbox
StartGameDequeued ==
    gpc = "drain" /\ inbox # <<>> /\ Head(inbox).cmd = "StartGame"

\* a tick that returns 0xFF sends exactly one ScreenFilled event and appends
\* one 0x43 at the tail of the command queue; unless a StartGame is taken
\* from the inbox, the queue changes only by an append at its tail or by the
\* removal of its head at the beginning of a tick that exchanges this head,
\* and a tick exchanges the opponent height only when the queue is empty
FollowUpOrder ==
    /\ (ReturnsAt("tick") /\ lastRet'.ok /\ lastRet'.v = 255) =>
           /\ emitted' = <<Event("ScreenFilled", 0)>>
           /\ command_queue' = Append(command_queue, 67)
    /\ (~StartGameDequeued /\ command_queue' # command_queue) =>
           \/ /\ Len(command_queue') = Len(command_queue) + 1
              /\ SubSeq(command_queue', 1, Len(command_queue)) = command_queue
           \/ /\ command_queue # <<>>
              /\ command_queue' = Tail(command_queue)
              /\ gpc = "phase" /\ phase = "InGame"
              /\ gpc' = "xchg" /\ gsite' = "tick"
              /\ xbyte' = Head(command_queue)
    /\ (gpc = "phase" /\ phase = "InGame" /\ gpc' = "xchg"
        /\ command_queue # <<>>) =>
           /\ xbyte' = Head(command_queue)
           /\ command_queue' = Tail(command_queue)

\* a follow-up byte pushed after a response 0xFF is in the queue
FollowUpQueued ==
    \E i \in 1..Len(command_queue) : command_queue[i] = 67

\* a tick is exchanging the follow-up byte
FollowUpSent ==
    gpc = "xchg" /\ gsite = "tick" /\ xbyte = 67

\* C23: a tick that returns 0xFF sends exactly one ScreenFilled event and
\* appends one 0x43 at the tail of the command queue; this 0x43 is exchanged
\* by a later tick, after the entries queued before it and before the
\* opponent height is sent again, unless a StartGame is processed first
C23_ScreenFilled ==
    /\ [][FollowUpOrder]_vars
    /\ FollowUpQueued ~> (FollowUpSent \/ phase = "GameStarting")

\* C23 as amended: the 0x43 is exchanged by a later tick as long as the
\* session loop runs and the phase stays InGame
C23_ScreenFilledAmended ==
    /\ [][FollowUpOrder]_vars
    /\ FollowUpQueued ~> (FollowUpSent \/ phase # "InGame" \/ gpc = "done")

\* a tick returned 0xFF while a command was still queued
C23_Witness ==
    /\ lastRet = Returned("tick", Ok(255))
    /\ emitted = <<Event("ScreenFilled", 0)>>
    /\ command_queue = <<52, 67>>
    /\ phase = "InGame"

\* ---------------------------------------------------------------- C24
\* 8192 * k modulo 2^32, as a u32
ClockOf(k) == [hi |-> (k \div 8) % Half, lo |-> (k % 8) * TimestampStep]

\* the packets written by the step
Written == SubSeq(sent', Len(sent) + 1, Len(sent'))

Extends(t, s) == Len(s) <= Len(t) /\ SubSeq(t, 1, Len(s)) = s

\* C25: the first packet connect writes is the version packet and it reads
\* exactly one packet, after the version packet; if the command of that
\* packet is not 1 connect fails; once connect has failed no status packet
\* has been written and no background loop exists; the background loop
\* exists only after the status packet has been written as the second
\* packet, so that every sync1 comes after it
C25_Handshake ==
    /\ [](/\ sent # <<>> => sent[1] = BgbPacket(1, 1, 4, 0, u32(0))
          /\ hpc = "failed" => bpc = "unborn" /\ Len(sent) <= 1
          /\ bpc # "unborn" =>
                 /\ Len(sent) >= 2
                 /\ sent[2] = BgbPacket(108, 1, 0, 0, u32(0))
          /\ \A i \in 1..Len(sent) : sent[i].command = 104 => i > 2)
    /\ [][/\ (bpc = "unborn" /\ sock' = sock /\ ~Extends(netin', netin)) =>
                 /\ hpc = "read" /\ sent # <<>>
                 /\ netin' = Drop(netin, PacketSize)
          /\ (hpc = "read" /\ hpc' # "read" /\ Len(netin) >= PacketSize
              /\ from_bytes(Take(netin, PacketSize)).command # 1) =>
                 hpc' = "failed"
          /\ (hpc = "read" /\ hpc' = "status") =>
                 /\ from_bytes(Take(netin, PacketSize)).command = 1
                 /\ netin' = Drop(netin, PacketSize)]_vars

\* connect succeeded and the loop has initiated a transfer
C25_Witness ==
    /\ hpc = "done"
    /\ Len(sent) = 3
    /\ sent[2].command = 108
    /\ sent[3].command = 104

\* ---------------------------------------------------------------- C26
\* C26: the handling of a sync3 writes exactly one packet, command 106 with
\* the data, extra1, extra2 and timestamp of the sync3; the handling of a
\* status packet writes exactly one packet, command 108 with data 1, extra1
\* 0, extra2 0 and the timestamp of the status packet; in both cases whether
\* or not an exchange is outstanding
C26_Keepalive ==
    [][/\ Handles(106) =>
              Written = <<BgbPacket(106, front_packet.data, front_packet.extra1,
                                    front_packet.extra2, front_packet.timestamp)>>
       /\ Handles(108) =>
              Written = <<BgbPacket(108, 1, 0, 0, front_packet.timestamp)>>]_vars

\* a sync3 has been answered while an exchange is outstanding
C26_Witness ==
    /\ lastHandled = "sync3"
    /\ waiting_for_response
    /\ Len(sent) = 2
    /\ sent[1].command = 104
    /\ \E t \in PeerTimestamps : sent[2] = BgbPacket(106, 85, 128, 2, t)

\* ---------------------------------------------------------------- C27
\* C27: the handling of a packet whose command is 106, 108 or none of 104,
\* 105, 106, 108, 109 leaves waiting_for_response and pending_byte as they
\* are, puts nothing on the result channel and does not end the loop; for a
\* command that is none of the five, nothing is written either
C27_Anomalies ==
    [][\A c \in PeerCommands \ {104, 105, 109} :
           Handles(c) =>
               /\ waiting_for_response' = waiting_for_response
               /\ pending_byte' = pending_byte
               /\ recv_ch' = recv_ch
               /\ bpc' \in {"proc", "poll"}
               /\ c \notin {106, 108} => sent' = sent]_vars

\* a packet with an unknown command has been handled while an exchange is
\* outstanding, and the exchange is still outstanding
C27_Witness ==
    /\ lastHandled = "unknown"
    /\ waiting_for_response
    /\ bpc = "poll"
    /\ Len(sent) = 1
    /\ cpc = "recv"

\* ---------------------------------------------------------------- C28
\* the bytes that have arrived and have not been processed, in stream order
Unprocessed == read_buf \o netin

\* C28: whatever the lengths of the reads, a processing step takes the packet
\* made of the first 8 unprocessed bytes of the stream and removes exactly
\* these; a read moves bytes from the socket to the end of the buffer without
\* changing the unprocessed stream, and the bytes of an incomplete packet
\* stay at the front of the buffer until later reads complete it
C28_Reassembly ==
    [][/\ (bpc = "proc" /\ read_buf' # read_buf) =>
              /\ Len(read_buf) >= PacketSize
              /\ cur_pkt' = <<from_bytes(Take(Unprocessed, PacketSize))>>
              /\ Unprocessed' = Drop(Unprocessed, PacketSize)
              /\ netin' = netin
       /\ (bpc = "read" /\ bpc' # "read") =>
              /\ Unprocessed' = Unprocessed
              /\ Extends(read_buf', read_buf)
       /\ (bpc # "proc" /\ sock' = sock) => Extends(Unprocessed', Unprocessed)
       /\ (bpc # "proc") => Extends(read_buf', read_buf)]_vars

\* a packet has been processed whose bytes came in three reads, and three
\* bytes of the next packet are buffered while five are still to be read
C28_Witness ==
    /\ cur_pkt # <<>>
    /\ lastHandled = "sync3"
    /\ Len(read_buf) = 3
    /\ Len(netin) = 5
    /\ \E t \in PeerTimestamps :
           Unprocessed = to_bytes(BgbPacket(108, 85, 128, 2, t))

\* ---------------------------------------------------------------- C29
\* C29: once the BgbClient handle has been dropped the background loop ends,
\* whatever state it is in at that moment, an exchange still outstanding
\* after the caller's timeout included
C29_Teardown ==
    (client = "dropped") ~> (bpc = "ended")

\* ---------------------------------------------------------------- C30
\* C30: from the step that takes StartGame from the inbox to the step that
\* sets the phase InGame the session takes nothing from the inbox, changes
\* none of the fields commands set, does not end and is never at the phase
\* dispatch of the run loop; the phase GameStarting is left only for InGame,
\* after the whole script has been exchanged, so a Stop that is in the inbox
\* during the script takes effect after it
C30_ScriptAtomic ==
    /\ [](phase = "GameStarting" => gpc \in {"script", "xchg"})
    /\ [](gpc = "phase" => phase # "GameStarting")
    /\ [][phase = "GameStarting" =>
              /\ Extends(inbox', inbox)
              /\ gpc' # "done"
              /\ UNCHANGED <<music_byte, opponent_height, command_queue>>
              /\ phase' \in {"GameStarting", "InGame"}
              /\ phase' = "InGame" =>
                     /\ startLog'.bytes = ScriptBytes(startLog'.cmd)
                     /\ gpc' = "drain"]_vars

\* a Stop is in the inbox while the third byte of a start script is exchanged
C30_Witness ==
    /\ phase = "GameStarting"
    /\ gpc = "xchg"
    /\ Len(startLog.bytes) = 3
    /\ inbox = <<GameCommand("Stop", 0)>>

\* ---------------------------------------------------------------- C31
\* the step takes command cmd from the inbox
Dequeues(cmd) ==
    gpc = "drain" /\ inbox # <<>> /\ Head(inbox).cmd = cmd /\ inbox' = Tail(inbox)

\* C31: the step that takes a StartGame from the inbox empties the command
\* queue and sets the opponent height to 0, whatever QueueCommand and
\* SetHeight put there before; both stay so during the script and are so
\* when the phase becomes InGame; from then on a QueueCommand taken from the
\* inbox appends its byte and a SetHeight sets the height, the queue and the
\* height change in no other way before the first tick, and a tick sends the
\* head of the queue, or the opponent height when the queue is empty: 0
\* unless a QueueCommand or SetHeight came after the StartGame
C31_StartDiscards ==
    /\ [](phase = "GameStarting" => command_queue = <<>> /\ opponent_height = 0)
    /\ []((phase = "InGame" /\ lastRet.site = "script") =>
              command_queue = <<>> /\ opponent_height = 0)
    /\ [][/\ Dequeues("StartGame") =>
                 command_queue' = <<>> /\ opponent_height' = 0
          /\ Dequeues("QueueCommand") =>
                 /\ command_queue' = Append(command_queue, Head(inbox).arg)
                 /\ opponent_height' = opponent_height
          /\ Dequeues("SetHeight") =>
                 /\ opponent_height' = Head(inbox).arg
                 /\ command_queue' = command_queue
          /\ opponent_height' # opponent_height =>
                 Dequeues("StartGame") \/ Dequeues("SetHeight")
          /\ command_queue' # command_queue =>
                 \/ Dequeues("StartGame") \/ Dequeues("QueueCommand")
                 \/ gsite = "tick" \/ gsite' = "tick"
          /\ (gpc = "phase" /\ phase = "InGame" /\ gpc' = "xchg") =>
                 xbyte' = IF command_queue = <<>> THEN opponent_height
                          ELSE Head(command_queue)]_vars

\* the only command sent during a game with the queue <<0x34>> and the
\* opponent height 7 is a StartGame, and the first tick after its script
\* sends 0
C31_Witness ==
    /\ cmdsSent = 1
    /\ phase = "InGame"
    /\ gpc = "xchg" /\ gsite = "tick"
    /\ xbyte = 0
    /\ command_queue = <<>>
    /\ opponent_height = 0
    /\ game_started_at.elapsed = 0

\* ---------------------------------------------------------------- C32
\* C32: read_pos never exceeds the size of read_buf; whenever the loop is
\* about to look at the request channel or to read the socket fewer than 8
\* bytes are buffered, so the slice read_buf[read_pos..] the read fills is in
\* range and not empty, whatever lengths the reads return
C32_BufferBound ==
    /\ read_pos <= ReadBufSize
    /\ bpc \in {"poll", "read"} =>
           /\ read_pos < PacketSize
           /\ ReadBufSize - read_pos > 0

\* a read has filled read_buf to its last byte
C32_Witness ==
    /\ read_pos = ReadBufSize
    /\ bpc = "proc"
    /\ Len(netin) = PacketSize * BurstLen - ReadBufSize

====
